---- MODULE Spec2Model ----
(***************************************************************************)
(* State-machine model of hrdic.Map (src/hrdic.py): construction, setCrop, *)
(* and findGrains with its flood-fill segmentation loop and its            *)
(* correspondence pass, plus hrdic.Grain.                                  *)
(*                                                                         *)
(* Grids are functions row -> column -> value with 0-based indices, as the *)
(* numpy arrays they model (self.grains[t, s] is grains[t][s]).            *)
(* Coordinates are <<x, y>> tuples, as the tuples of Grain.coordList.      *)
(* A raised Python exception ends the run: pc = "error", exc names it.     *)
(*                                                                         *)
(* External collaborators are inputs: the boundary mask returned by the    *)
(* boundaries property (skimage warp / skeletonize), the scalar field      *)
(* max_shear (computed from the loaded data), the reference (EBSD) map and *)
(* the estimated transform.                                                *)
(***************************************************************************)
EXTENDS Integers, Sequences, FiniteSets, TLC

\* ---------------------------------------------------------------- bounds
MaxDim == 4          \* full map sides are 1..MaxDim
MaxArea == 9         \* full maps have at most MaxArea pixels
MaxCropArg == 1      \* setCrop arguments are None or 0..MaxCropArg
MaxMinGrain == 3     \* minGrainSize is 1..MaxMinGrain
MaxBlock == 5        \* block sides of the two-block masks are 1..MaxBlock
NRef == 2            \* number of grains of the reference map

VARIABLES
  xdim, ydim,        \* full size of the data (Map.xdim, Map.ydim)
  xDim, yDim,        \* size after cropping (Map.xDim, Map.yDim)
  cropDists,         \* <<<<xMin, xMax>>, <<yMin, yMax>>>>
  max_shear,         \* scalar field, max_shear[Y][X] over the full map
  ebsdMap,           \* reference map: [xDim, yDim, grains, grainList]
  boundaries,        \* mask the boundaries property returned (0 / -1)
  minGrainSize,      \* argument of findGrains
  grains,            \* label grid self.grains
  grainList,         \* self.grainList: sequence of Grain records
  unknownPoints,     \* np.where(self.grains == 0), row-major, as <<x, y>>
  grainIndex,        \* label counter of findGrains
  currentGrain,      \* Grain being filled / last returned by floodFill
  edge, newedge,     \* frontier lists of floodFill
  xy,                \* frontier pixel (x, y) of the last for-iteration
  moves,             \* candidate moves examined for xy, after filtering
  warpedDicGrains,   \* label grid warped into the reference frame
  ebsdGrainIds,      \* self.ebsdGrainIds
  i,                 \* index of the correspondence loop
  pc,                \* "idle" | "loop" | "fill" | "link" | "done" | "error"
  exc                \* the exception that ended the run ("" if none)

vars == <<xdim, ydim, xDim, yDim, cropDists, max_shear, ebsdMap, boundaries,
          minGrainSize, grains, grainList, unknownPoints, grainIndex,
          currentGrain, edge, newedge, xy, moves, warpedDicGrains,
          ebsdGrainIds, i, pc, exc>>

mapVars == <<xdim, ydim, max_shear, ebsdMap>>
cropVars == <<xDim, yDim, cropDists>>
fillVars == <<currentGrain, edge, newedge, xy, moves>>
linkVars == <<warpedDicGrains, ebsdGrainIds, i>>

\* ---------------------------------------------------------------- helpers
Range(f) == {f[k] : k \in DOMAIN f}

\* The pixels of a w x h grid in row-major (C) order, as <<x, y>>.
Cells(w, h) == [k \in 1..(w * h) |-> <<(k - 1) % w, (k - 1) \div w>>]

GridH(g) == Cardinality(DOMAIN g)
GridW(g) == IF GridH(g) = 0 THEN 0 ELSE Cardinality(DOMAIN g[0])

\* numpy integer indexing along an axis of length n: a negative index counts
\* from the end; anything outside -n..n-1 raises IndexError.
NormIdx(k, n) == IF k < 0 THEN k + n ELSE k
IdxOk(k, n) == NormIdx(k, n) >= 0 /\ NormIdx(k, n) < n

\* np.delete(seq, k, 0) for a 0-based index k.
Delete(seq, k) == [j \in 1..(Len(seq) - 1) |-> IF j <= k THEN seq[j] ELSE seq[j + 1]]

\* ---------------------------------------------------------------- Grain
NewGrain == [coordList |-> <<>>, maxShearList |-> <<>>,
             ebsdGrainId |-> <<>>, ebsdGrain |-> <<>>]

addPoint(grain, coord, maxShear) ==
  [grain EXCEPT !.coordList = Append(@, coord),
                !.maxShearList = Append(@, maxShear)]

GrainLen(grain) == Len(grain.coordList)

\* ---------------------------------------------------------------- inputs
\* The scalar field of a map of the given full size: one distinct value per
\* pixel, so that a sample identifies the pixel it was read from.
ShearFields(w, h) == {[y \in 0..(h - 1) |-> [x \in 0..(w - 1) |-> y * w + x]]}

\* Reference maps offered to a w x h map: twice as wide, the left half
\* covered by the NRef reference grains (labels 1..NRef), the right half
\* unindexed background (label 0).
RefMaps(w, h) ==
  {[xDim |-> 2 * w, yDim |-> h,
    grains |-> [y \in 0..(h - 1) |-> [x \in 0..(2 * w - 1) |->
                  IF x < w THEN 1 + ((x + y) % NRef) ELSE 0]],
    grainList |-> [k \in 1..NRef |-> k]]}

FullDims == {d \in (1..MaxDim) \X (1..MaxDim) : d[1] * d[2] <= MaxArea}

\* The estimated transforms: pure translations of the map into the
\* reference frame (onto the grains, partly or wholly onto the background,
\* or off the reference map).
Translations == {<<0, 0>>, <<1, 0>>, <<xdim, 0>>, <<2 * xdim, 0>>}

AllMasks(w, h) == [0..(h - 1) -> [0..(w - 1) -> {0, -1}]]

\* ---------------------------------------------------------------- Init
\* Map.__init__: cropped size = full size, cropDists = ((0, xdim), (0, ydim)).
MapInit(dims) ==
  /\ xdim = dims[1] /\ ydim = dims[2]
  /\ xDim = xdim /\ yDim = ydim
  /\ max_shear \in ShearFields(xdim, ydim)
  /\ cropDists = <<<<0, xdim>>, <<0, ydim>>>>
  /\ ebsdMap \in RefMaps(xdim, ydim)
  /\ boundaries = <<>> /\ minGrainSize = 0
  /\ grains = <<>> /\ grainList = <<>> /\ unknownPoints = <<>>
  /\ grainIndex = 0 /\ currentGrain = NewGrain
  /\ edge = <<>> /\ newedge = <<>> /\ xy = <<>> /\ moves = <<>>
  /\ warpedDicGrains = <<>> /\ ebsdGrainIds = <<>> /\ i = 0
  /\ pc = "idle" /\ exc = ""

Init == \E dims \in FullDims : MapInit(dims)

\* ---------------------------------------------------------------- setCrop
\* An optional argument is <<>> (None) or <<v>>.
CropArgs == {<<>>} \cup {<<v>> : v \in 0..MaxCropArg}

\* if arg is not None: self.cropDists[..] = arg
SetIf(old, arg) == IF arg = <<>> THEN old ELSE arg[1]

\* int(self.xdim - xMin - xMax)
CroppedDim(full, lo, hi) == full - lo - hi

\* The margins are stored first; then the cropped sizes are computed from the
\* arguments themselves, which raises TypeError for an argument left at None
\* (xDim is assigned before yDim's expression is evaluated).
SetCrop(xMin, xMax, yMin, yMax) ==
  /\ pc = "idle"
  /\ cropDists' = <<<<SetIf(cropDists[1][1], xMin), SetIf(cropDists[1][2], xMax)>>,
                    <<SetIf(cropDists[2][1], yMin), SetIf(cropDists[2][2], yMax)>>>>
  /\ LET xBad == xMin = <<>> \/ xMax = <<>>
         yBad == yMin = <<>> \/ yMax = <<>>
     IN  /\ xDim' = IF xBad THEN xDim ELSE CroppedDim(xdim, xMin[1], xMax[1])
         /\ yDim' = IF xBad \/ yBad THEN yDim ELSE CroppedDim(ydim, yMin[1], yMax[1])
         /\ pc' = IF xBad \/ yBad THEN "error" ELSE "idle"
         /\ exc' = IF xBad \/ yBad THEN "TypeError:setCrop" ELSE ""
  /\ UNCHANGED <<mapVars, boundaries, minGrainSize, grains, grainList,
                 unknownPoints, grainIndex, fillVars, linkVars>>

\* ---------------------------------------------------------------- findGrains
\* A scan that misses the last row of the grid.
UnknownPointsShort(g) ==
  SelectSeq(Cells(GridW(g), GridH(g) - 1), LAMBDA c : g[c[2]][c[1]] = 0)

\* np.where(g == 0): the 0-labelled pixels in row-major order.
UnknownPoints(g) ==
  SelectSeq(Cells(GridW(g), GridH(g)), LAMBDA c : g[c[2]][c[1]] = 0)

\* Lines 237-244: copy the mask, empty the registry, scan, start the counter.
\* The external warp needs a non-empty output shape.
FindGrains(masks, sizes) ==
  /\ pc = "idle"
  /\ xDim >= 1 /\ yDim >= 1
  /\ \E mask \in masks, size \in sizes :
       /\ boundaries' = mask
       /\ minGrainSize' = size
       /\ grains' = mask
       /\ unknownPoints' = UnknownPoints(mask)
  /\ grainList' = <<>>
  /\ grainIndex' = 1
  /\ pc' = "loop"
  /\ UNCHANGED <<mapVars, cropVars, fillVars, linkVars, exc>>

\* ---------------------------------------------------------------- floodFill
\* self.max_shear[y + cropDists[1, 0], x + cropDists[0, 0]]
ShearRow(y) == y + cropDists[2][1]
ShearCol(x) == x + cropDists[1][1]
ShearOk(x, y) == IdxOk(ShearRow(y), ydim) /\ IdxOk(ShearCol(x), xdim)
ShearAt(x, y) == max_shear[NormIdx(ShearRow(y), ydim)][NormIdx(ShearCol(x), xdim)]

\* Lines 302-318: the four moves, then the edge filtering by index deletion.
AllMoves(x, y) == <<(<<x + 1, y>>), (<<x - 1, y>>), (<<x, y + 1>>), (<<x, y - 1>>)>>

XFiltered(x, y) ==
  IF x <= 0 THEN Delete(AllMoves(x, y), 1)
  ELSE IF x >= xDim - 1 THEN Delete(AllMoves(x, y), 0)
  ELSE AllMoves(x, y)

MovesIndexShift(x) == IF x <= 0 \/ x >= xDim - 1 THEN 1 ELSE 0

Moves(x, y) ==
  IF y <= 0 THEN Delete(XFiltered(x, y), 3 - MovesIndexShift(x))
  ELSE IF y >= yDim - 1 THEN Delete(XFiltered(x, y), 2 - MovesIndexShift(x))
  ELSE XFiltered(x, y)

\* The sample stored with a claimed neighbour (s, t) of the frontier pixel
\* (x, y): lines 322 and 327 index max_shear with x and y.
NeighbourSampleOk(x, y, s, t) == ShearOk(x, y)
NeighbourSample(x, y, s, t) == ShearAt(x, y)

\* The rule testing the x direction only.
ForwardXOnly(x, y, s, t) == s > x

\* The rule with both comparisons turned around.
ForwardReversed(x, y, s, t) == s < x \/ t < y

\* The forward rule of line 326.
Forward(x, y, s, t) == s > x \/ t > y

\* Lines 321-329 for one move m of the frontier pixel (x, y), on the running
\* state st = [g, grain, newedge, err]; after a raised IndexError nothing
\* more is done.
ProcessMove(st, x, y, m) ==
  LET s == m[1]
      t == m[2]
      tt == NormIdx(t, yDim)
      ss == NormIdx(s, xDim)
  IN  IF st.err THEN st
      ELSE IF ~(IdxOk(t, GridH(st.g)) /\ IdxOk(s, GridW(st.g))) THEN [st EXCEPT !.err = TRUE]
      ELSE IF st.g[tt][ss] = 0 THEN
             IF ~NeighbourSampleOk(x, y, s, t) THEN [st EXCEPT !.err = TRUE]
             ELSE [g |-> [st.g EXCEPT ![tt][ss] = grainIndex],
                   grain |-> addPoint(st.grain, m, NeighbourSample(x, y, s, t)),
                   newedge |-> Append(st.newedge, m),
                   err |-> FALSE]
      ELSE IF st.g[tt][ss] = -1 /\ Forward(x, y, s, t) THEN
             IF ~NeighbourSampleOk(x, y, s, t) THEN [st EXCEPT !.err = TRUE]
             ELSE [g |-> [st.g EXCEPT ![tt][ss] = grainIndex],
                   grain |-> addPoint(st.grain, m, NeighbourSample(x, y, s, t)),
                   newedge |-> st.newedge,
                   err |-> FALSE]
      ELSE st

RECURSIVE ProcessMoves(_, _, _, _)
ProcessMoves(st, x, y, ms) ==
  IF ms = <<>> THEN st
  ELSE ProcessMoves(ProcessMove(st, x, y, Head(ms)), x, y, Tail(ms))

\* Line 247 (loop test true), line 249 and lines 290-297: seed the fill at
\* the first unknown point.
FloodFillSeed ==
  /\ pc = "loop"
  /\ unknownPoints # <<>>
  /\ LET x == unknownPoints[1][1]
         y == unknownPoints[1][2]
     IN  IF ShearOk(x, y)
         THEN /\ currentGrain' = addPoint(NewGrain, <<x, y>>, ShearAt(x, y))
              /\ edge' = <<(<<x, y>>)>>
              /\ grains' = [grains EXCEPT ![y][x] = grainIndex]
              /\ pc' = "fill"
              /\ exc' = exc
         ELSE /\ currentGrain' = NewGrain
              /\ UNCHANGED <<edge, grains>>
              /\ pc' = "error"
              /\ exc' = "IndexError:floodFill"
  /\ newedge' = <<>>
  /\ xy' = <<>> /\ moves' = <<>>
  /\ UNCHANGED <<mapVars, cropVars, boundaries, minGrainSize, grainList,
                 unknownPoints, grainIndex, linkVars>>

\* One iteration of "for (x, y) in edge" (lines 301-329).
FloodFillPixel ==
  /\ pc = "fill"
  /\ edge # <<>>
  /\ LET x == Head(edge)[1]
         y == Head(edge)[2]
         st == ProcessMoves([g |-> grains, grain |-> currentGrain,
                             newedge |-> newedge, err |-> FALSE],
                            x, y, Moves(x, y))
     IN  /\ xy' = <<x, y>>
         /\ moves' = Moves(x, y)
         /\ grains' = st.g
         /\ currentGrain' = st.grain
         /\ newedge' = st.newedge
         /\ edge' = Tail(edge)
         /\ pc' = IF st.err THEN "error" ELSE "fill"
         /\ exc' = IF st.err THEN "IndexError:floodFill" ELSE exc
  /\ UNCHANGED <<mapVars, cropVars, boundaries, minGrainSize, grainList,
                 unknownPoints, grainIndex, linkVars>>

\* The size test with <= for <.
UndersizedOrEqual(grainSize, minSize) == grainSize <= minSize

\* Line 252.
Undersized(grainSize, minSize) == grainSize < minSize

\* Lines 254-255: every coordinate of the grain is set to -2.
RECURSIVE Purge(_, _)
Purge(g, coords) ==
  IF coords = <<>> THEN g
  ELSE Purge([g EXCEPT ![Head(coords)[2]][Head(coords)[1]] = -2], Tail(coords))

\* Lines 251-259: what findGrains does with the grain floodFill returned.
GridAfter(g, grain, minSize) ==
  IF Undersized(GrainLen(grain), minSize) THEN Purge(g, grain.coordList) ELSE g

GrainListAfter(lst, grain, minSize) ==
  IF Undersized(GrainLen(grain), minSize) THEN lst ELSE Append(lst, grain)

\* The label counter advanced for a purged grain too.
GrainIndexAlways(idx, grain, minSize) == idx + 1

GrainIndexAfter(idx, grain, minSize) ==
  IF Undersized(GrainLen(grain), minSize) THEN idx ELSE idx + 1

\* The for loop over edge is exhausted (lines 331-334). With a new frontier
\* the fill goes on; without one floodFill returns and findGrains runs
\* lines 251-262: purge or register the grain, then rescan.
FloodFillLevel ==
  /\ pc = "fill"
  /\ edge = <<>>
  /\ IF newedge # <<>>
     THEN /\ edge' = newedge
          /\ newedge' = <<>>
          /\ UNCHANGED <<grains, grainList, grainIndex, unknownPoints, pc>>
     ELSE /\ grains' = GridAfter(grains, currentGrain, minGrainSize)
          /\ grainList' = GrainListAfter(grainList, currentGrain, minGrainSize)
          /\ grainIndex' = GrainIndexAfter(grainIndex, currentGrain, minGrainSize)
          /\ unknownPoints' = UnknownPoints(grains')
          /\ pc' = "loop"
          /\ UNCHANGED <<edge, newedge>>
  /\ UNCHANGED <<mapVars, cropVars, boundaries, minGrainSize, currentGrain,
                 xy, moves, linkVars, exc>>

\* ---------------------------------------------------------------- correspondence
\* tf.warp(dicGrains, ebsdTransform.inverse, output_shape = reference shape,
\* order = 0) for a translation tr: reference pixel r shows the label of map
\* pixel r - tr, and 0 where that falls outside the label grid. ebsdShift is
\* at its default (0, 0), so no padding is added.
Warp(g, tr) ==
  [ry \in 0..(ebsdMap.yDim - 1) |-> [rx \in 0..(ebsdMap.xDim - 1) |->
     IF /\ rx - tr[1] >= 0 /\ rx - tr[1] < GridW(g)
        /\ ry - tr[2] >= 0 /\ ry - tr[2] < GridH(g)
     THEN g[ry - tr[2]][rx - tr[1]]
     ELSE 0]]

\* self.ebsdMap.grains[warpedDicGrains == label]
Footprint(warped, label) ==
  LET cells == SelectSeq(Cells(ebsdMap.xDim, ebsdMap.yDim),
                         LAMBDA c : warped[c[2]][c[1]] = label)
  IN  [k \in 1..Len(cells) |-> ebsdMap.grains[cells[k][2]][cells[k][1]]]

\* scipy.stats.mode of a non-empty sample: the most frequent value, the
\* smallest of them on a tie.
Count(fp, v) == Cardinality({k \in DOMAIN fp : fp[k] = v})
Mode(fp) ==
  CHOOSE v \in Range(fp) :
    \A u \in Range(fp) : Count(fp, v) > Count(fp, u) \/ (Count(fp, v) = Count(fp, u) /\ v <= u)

\* Line 283: the index recorded for a modal reference label.
GrainIdOf(modeId) == modeId - 1

\* Python list indexing lst[k] as a 1-based position: <<>> is IndexError.
PyIndex(lst, k) ==
  IF k >= 0 /\ k < Len(lst) THEN <<k + 1>>
  ELSE IF k < 0 /\ k + Len(lst) >= 0 THEN <<k + Len(lst) + 1>>
  ELSE <<>>

\* Line 247 (loop test false) and lines 266-276.
LinkStart ==
  /\ pc = "loop"
  /\ unknownPoints = <<>>
  /\ \E tr \in Translations : warpedDicGrains' = Warp(grains, tr)
  /\ ebsdGrainIds' = <<>>
  /\ i' = 0
  /\ pc' = "link"
  /\ UNCHANGED <<mapVars, cropVars, boundaries, minGrainSize, grains, grainList,
                 unknownPoints, grainIndex, fillVars, exc>>

\* One iteration of the loop of lines 278-285. modeId[0] raises IndexError
\* for an empty footprint; ebsdMap.grainList[...] is a Python list index.
LinkGrain ==
  /\ pc = "link"
  /\ i < Len(grainList)
  /\ LET fp == Footprint(warpedDicGrains, i + 1)
     IN  IF fp = <<>>
         THEN /\ pc' = "error"
              /\ exc' = "IndexError:mode"
              /\ UNCHANGED <<ebsdGrainIds, grainList, i>>
         ELSE LET id == GrainIdOf(Mode(fp))
                  ref == PyIndex(ebsdMap.grainList, id)
              IN  /\ ebsdGrainIds' = Append(ebsdGrainIds, id)
                  /\ grainList' = [grainList EXCEPT ![i + 1].ebsdGrainId = <<id>>,
                                                    ![i + 1].ebsdGrain = ref]
                  /\ pc' = IF ref = <<>> THEN "error" ELSE "link"
                  /\ exc' = IF ref = <<>> THEN "IndexError:grainList" ELSE exc
                  /\ i' = IF ref = <<>> THEN i ELSE i + 1
  /\ UNCHANGED <<mapVars, cropVars, boundaries, minGrainSize, grains,
                 unknownPoints, grainIndex, fillVars, warpedDicGrains>>

\* Line 287.
LinkReturn ==
  /\ pc = "link"
  /\ i = Len(grainList)
  /\ pc' = "done"
  /\ UNCHANGED <<mapVars, cropVars, boundaries, minGrainSize, grains, grainList,
                 unknownPoints, grainIndex, fillVars, linkVars, exc>>

\* ---------------------------------------------------------------- specification
Segment == FloodFillSeed \/ FloodFillPixel \/ FloodFillLevel
Link == LinkStart \/ LinkGrain \/ LinkReturn

Next ==
  \/ \E xMin, xMax, yMin, yMax \in CropArgs : SetCrop(xMin, xMax, yMin, yMax)
  \/ FindGrains(AllMasks(xDim, yDim), 1..MaxMinGrain)
  \/ Segment
  \/ Link

Spec == Init /\ [][Next]_vars

\* ---------------------------------------------------------------- two-block masks
\* A mask whose column c (row r) is boundary throughout and nothing else is.
ColumnMask(w, h, c) == [y \in 0..(h - 1) |-> [x \in 0..(w - 1) |-> IF x = c THEN -1 ELSE 0]]
RowMask(w, h, r) == [y \in 0..(h - 1) |-> [x \in 0..(w - 1) |-> IF y = r THEN -1 ELSE 0]]

\* The masks of shape (h, w) made of two all-interior blocks with sides in
\* 1..MaxBlock on either side of one straight boundary line.
StripeMasks(w, h) ==
  {ColumnMask(w, h, c) : c \in {d \in 1..MaxBlock : h <= MaxBlock /\ w - d - 1 \in 1..MaxBlock}}
    \cup
  {RowMask(w, h, r) : r \in {d \in 1..MaxBlock : w <= MaxBlock /\ h - d - 1 \in 1..MaxBlock}}

StripeDims ==
  {d \in (1..(2 * MaxBlock + 1)) \X (1..(2 * MaxBlock + 1)) : StripeMasks(d[1], d[2]) # {}}

InitStripe == \E dims \in StripeDims : MapInit(dims)

NextStripe ==
  \/ FindGrains(StripeMasks(xDim, yDim), 1..MaxMinGrain)
  \/ Segment
  \/ Link

SpecStripe == InitStripe /\ [][NextStripe]_vars

\* The 10 x 10 map whose column 5 is boundary, segmented with minGrainSize 5.
InitScenario == MapInit(<<10, 10>>)

NextScenario ==
  \/ FindGrains({ColumnMask(xDim, yDim, 5)}, {5})
  \/ Segment
  \/ Link

SpecScenario == InitScenario /\ [][NextScenario]_vars

\* ---------------------------------------------------------------- properties
Pixels == {<<x, y>> : x \in 0..(GridW(grains) - 1), y \in 0..(GridH(grains) - 1)}
Label(c) == grains[c[2]][c[1]]
IsBoundary(c) == boundaries[c[2]][c[1]] = -1
Zeros == Cardinality({c \in Pixels : Label(c) = 0})

\* The while loop of findGrains has been left.
SegmentationFinished ==
  \/ pc \in {"link", "done"}
  \/ pc = "error" /\ exc \in {"IndexError:mode", "IndexError:grainList"}

\* The loop is at its test (line 247), or has been left.
BetweenIterations == pc = "loop" \/ SegmentationFinished

\* The last call of floodFill returned a grain that was purged.
LastGrainPurged ==
  /\ BetweenIterations
  /\ currentGrain.coordList # <<>>
  /\ Label(currentGrain.coordList[1]) = -2

\* C1 (coverage): once the segmentation loop has finished no pixel holds 0;
\* every pixel holds a positive grain label, -1 or -2.
C1_Coverage ==
  SegmentationFinished => \A c \in Pixels : Label(c) >= 1 \/ Label(c) \in {-1, -2}

\* A finished segmentation showing all three kinds of pixel.
C1_Witness ==
  /\ SegmentationFinished
  /\ \E c \in Pixels : Label(c) >= 1
  /\ \E c \in Pixels : Label(c) = -1
  /\ \E c \in Pixels : Label(c) = -2

\* C2 (label contiguity and label/registry bijection): after every iteration
\* of the outer loop and after the loop, the positive labels of the grid are
\* exactly 1..Len(grainList), and a pixel holds label k iff it is in the
\* coordList of grainList[k].
C2_LabelBijection ==
  BetweenIterations =>
    /\ {Label(c) : c \in {d \in Pixels : Label(d) >= 1}} = 1..Len(grainList)
    /\ \A k \in 1..Len(grainList) :
         {c \in Pixels : Label(c) = k} = Range(grainList[k].coordList)

\* Two grains registered, the last of them seeded after an interior pixel
\* that lies before its seed in scan order was purged: the purged grain's
\* label was used again.
C2_Witness ==
  /\ SegmentationFinished
  /\ Len(grainList) >= 2
  /\ \E c \in Pixels :
       /\ Label(c) = -2 /\ ~IsBoundary(c)
       /\ LET seed == grainList[Len(grainList)].coordList[1]
          IN  c[2] * GridW(grains) + c[1] < seed[2] * GridW(grains) + seed[1]

\* C3 (size floor): every registered grain has at least minGrainSize distinct
\* claimed pixels, each listed once, and a grain that was purged to -2 had
\* fewer than minGrainSize claimed pixels.
C3_SizeFloor ==
  BetweenIterations =>
    /\ \A k \in 1..Len(grainList) :
         /\ Cardinality(Range(grainList[k].coordList)) >= minGrainSize
         /\ Cardinality(Range(grainList[k].coordList)) = Len(grainList[k].coordList)
    /\ LastGrainPurged =>
         /\ Cardinality(Range(currentGrain.coordList)) < minGrainSize
         /\ Cardinality(Range(currentGrain.coordList)) = Len(currentGrain.coordList)

\* A registered grain that passes the floor only with its absorbed boundary
\* pixels, and a purged grain of more than one pixel.
C3_Witness ==
  /\ LastGrainPurged
  /\ Len(currentGrain.coordList) >= 2
  /\ \E k \in 1..Len(grainList) :
       /\ Len(grainList[k].coordList) = minGrainSize
       /\ \E c \in Range(grainList[k].coordList) : IsBoundary(c)

\* The boundary line of a two-block mask and its two blocks: the block before
\* the line (left of a column, above a row) and the block after it.
Line == {c \in Pixels : IsBoundary(c)}
BlockBefore ==
  {c \in Pixels \ Line : \A b \in Line : c[1] < b[1] \/ c[2] < b[2]}
BlockAfter == (Pixels \ Line) \ BlockBefore
OwnersOf(c) == {k \in 1..Len(grainList) : c \in Range(grainList[k].coordList)}

\* C4 (boundary absorption directionality): on a two-block mask with both
\* blocks at or above the size floor, after the segmentation every pixel of
\* the boundary line is in the coordList of exactly one grain, once, and
\* none is left at -1.
C4_LineAbsorbedOnce ==
  (/\ SegmentationFinished
   /\ Cardinality(BlockBefore) >= minGrainSize
   /\ Cardinality(BlockAfter) >= minGrainSize) =>
    \A b \in Line :
      /\ Cardinality(OwnersOf(b)) = 1
      /\ Label(b) # -1
      /\ \A k \in OwnersOf(b) :
           Cardinality({j \in 1..Len(grainList[k].coordList) : grainList[k].coordList[j] = b}) = 1

\* Two 5 x 5 blocks on either side of a boundary row, both registered.
C4_Witness ==
  /\ SegmentationFinished
  /\ Cardinality(BlockBefore) = 25 /\ Cardinality(BlockAfter) = 25
  /\ Cardinality(Line) = 5
  /\ Line = {c \in Pixels : c[2] = 5}
  /\ Len(grainList) = 2

\* C5 as stated (scenario): two grains of exactly 45 pixels each, column 5
\* at -1 except for the absorbed pixels.
C5_TwoGrainsOf45 ==
  SegmentationFinished =>
    /\ Len(grainList) = 2
    /\ Len(grainList[1].coordList) = 45
    /\ Len(grainList[2].coordList) = 45
    /\ \A c \in Line : Label(c) = -1 \/ OwnersOf(c) # {}

\* C5 as amended (scenario): two grains; the first holds the 50 pixels of
\* columns 0-4 and all 10 pixels of column 5, the second the 40 pixels of
\* columns 6-9; column 5 carries label 1 throughout.
C5_Grains60And40 ==
  SegmentationFinished =>
    /\ Len(grainList) = 2
    /\ Range(grainList[1].coordList) = {c \in Pixels : c[1] <= 5}
    /\ Len(grainList[1].coordList) = 60
    /\ Range(grainList[2].coordList) = {c \in Pixels : c[1] >= 6}
    /\ Len(grainList[2].coordList) = 40
    /\ \A c \in Line : Label(c) = 1

\* The scenario run to its end with its two grains.
C5_Witness ==
  /\ pc = "done"
  /\ Cardinality(Pixels) = 100
  /\ Line = {c \in Pixels : c[1] = 5}
  /\ minGrainSize = 5
  /\ Len(grainList) = 2

\* Every grain floodFill has produced or is producing.
Grains == Range(grainList) \cup {currentGrain}

\* C6 (per-pixel sample correspondence): in every grain maxShearList is as
\* long as coordList and maxShearList[j] is the scalar field at the pixel
\* coordList[j] itself, offset by the crop origin.
C6_SampleOfOwnPixel ==
  pc \in {"fill", "loop", "link", "done"} =>
    \A g \in Grains :
      /\ Len(g.maxShearList) = Len(g.coordList)
      /\ \A j \in 1..Len(g.coordList) :
           g.maxShearList[j] = ShearAt(g.coordList[j][1], g.coordList[j][2])

\* The footprint of registry grain k lies on reference label 0 only.
OnBackground(k) ==
  \A v \in Range(Footprint(warpedDicGrains, k)) : v = 0

\* C7 (no-correspondence reporting): the correspondence pass does not abort;
\* a grain whose footprint is empty or lies on reference label 0 only gets
\* no index (in particular not -1) and no reference grain; at the end
\* ebsdGrainIds has one entry per registry grain.
C7_NoCorrespondenceReported ==
  /\ exc \notin {"IndexError:mode", "IndexError:grainList"}
  /\ pc \in {"link", "done"} =>
       \A k \in 1..Len(ebsdGrainIds) :
         OnBackground(k) =>
           /\ ebsdGrainIds[k] # -1
           /\ grainList[k].ebsdGrainId = <<>>
           /\ grainList[k].ebsdGrain = <<>>
  /\ pc = "done" => Len(ebsdGrainIds) = Len(grainList)

\* C8 (crop-window invariant): the cropped size is the full size minus the
\* stored margins, and the margins of an axis never exceed its full size.
C8_CropWindow ==
  /\ xDim = xdim - cropDists[1][1] - cropDists[1][2]
  /\ yDim = ydim - cropDists[2][1] - cropDists[2][2]
  /\ cropDists[1][1] + cropDists[1][2] <= xdim
  /\ cropDists[2][1] + cropDists[2][2] <= ydim

\* C9 (termination): seeding a fill claims a 0 pixel, a fill never gives a
\* pixel back to 0 and never fails to return, and a mask without 0 pixels
\* goes straight to the correspondence pass with an empty registry.
C9_Termination ==
  [][/\ (pc = "loop" /\ unknownPoints # <<>>) => (pc' = "fill" /\ Zeros' < Zeros)
     /\ pc = "fill" => (pc' \in {"fill", "loop"} /\ Zeros' <= Zeros)
     /\ (pc = "loop" /\ unknownPoints = <<>> /\ currentGrain = NewGrain) =>
          (pc' = "link" /\ grainList' = <<>>)]_vars

\* The 4-neighbours of (x, y) that lie in the cropped grid.
NeighboursInGrid(x, y) ==
  {m \in Range(AllMoves(x, y)) : m[1] >= 0 /\ m[1] < xDim /\ m[2] >= 0 /\ m[2] < yDim}

\* C10 (in-bounds flood fill): the moves examined for a frontier pixel are
\* exactly its 4-neighbours inside the cropped grid.
C10_MovesInBounds ==
  xy # <<>> =>
    /\ Range(moves) = NeighboursInGrid(xy[1], xy[2])
    /\ Len(moves) = Cardinality(NeighboursInGrid(xy[1], xy[2]))

====
